---- MODULE Spec2Model ----
(***************************************************************************)
(* SlideXtract (src/main.go): frame sampling, extraction scheduling and    *)
(* duplicate suppression, in the disk-buffered parallel mode               *)
(* (generateSlides / extractVideoFrames) and in the memory-bounded         *)
(* streaming mode (generateSlidesInMemory / extractVideoFramesToMemory),   *)
(* driven by main.                                                         *)
(*                                                                         *)
(* Durations are int64 nanoseconds as in Go's time.Duration.  A video is   *)
(* a function from a seek position in whole microseconds (the unit the     *)
(* "-ss" argument is formatted in) to the frame shown there.               *)
(***************************************************************************)
EXTENDS Integers, Sequences, FiniteSets, TLC

(***************************************************************************)
(* uint64 arithmetic, as eight base-256 limbs, least significant first.    *)
(***************************************************************************)
LimbBase == 256
LimbCount == 8

RECURSIVE U64Limbs(_, _)
U64Limbs(n, k) ==
    IF k = 0 THEN <<>> ELSE <<n % LimbBase>> \o U64Limbs(n \div LimbBase, k - 1)

\* uint64(x) for 0 <= x < 2^31
U64FromInt(n) == U64Limbs(n, LimbCount)

RECURSIVE U64SubFrom(_, _, _, _)
U64SubFrom(a, b, i, borrow) ==
    IF i > LimbCount THEN <<>>
    ELSE LET d == a[i] - b[i] - borrow
         IN  IF d < 0
             THEN <<d + LimbBase>> \o U64SubFrom(a, b, i + 1, 1)
             ELSE <<d>> \o U64SubFrom(a, b, i + 1, 0)

\* a - b modulo 2^64
U64Sub(a, b) == U64SubFrom(a, b, 1, 0)

RECURSIVE U64AddFrom(_, _, _, _)
U64AddFrom(a, b, i, carry) ==
    IF i > LimbCount THEN <<>>
    ELSE LET s == a[i] + b[i] + carry
         IN  <<s % LimbBase>> \o U64AddFrom(a, b, i + 1, s \div LimbBase)

\* a + b modulo 2^64
U64Add(a, b) == U64AddFrom(a, b, 1, 0)

RECURSIVE U64Column(_, _, _, _)
U64Column(a, b, k, i) ==
    IF i > k THEN 0 ELSE a[i] * b[k + 1 - i] + U64Column(a, b, k, i + 1)

RECURSIVE U64MulFrom(_, _, _, _)
U64MulFrom(a, b, k, carry) ==
    IF k > LimbCount THEN <<>>
    ELSE LET s == U64Column(a, b, k, 1) + carry
         IN  <<s % LimbBase>> \o U64MulFrom(a, b, k + 1, s \div LimbBase)

\* a * b modulo 2^64
U64Mul(a, b) == U64MulFrom(a, b, 1, 0)

\* The largest value the model's integers hold; larger uint64 values
\* saturate at it when they leave the limb representation.
IntCeil == (2^30 - 1) * 2 + 1

U64ToInt(a) ==
    IF a[5] = 0 /\ a[6] = 0 /\ a[7] = 0 /\ a[8] = 0 /\ a[4] < 128
    THEN a[1] + LimbBase * (a[2] + LimbBase * (a[3] + LimbBase * a[4]))
    ELSE IntCeil

\* func sqDiffUInt8(x, y uint8) uint64
sqDiffUInt8Narrow(x, y) ==
    LET d == U64FromInt((x - y) % LimbBase)
    IN  U64Mul(d, d)
sqDiffUInt8(x, y) ==
    LET d == U64Sub(U64FromInt(x), U64FromInt(y))
    IN  U64Mul(d, d)

(***************************************************************************)
(* math.Sqrt(float64(a)) * 100000, truncated: the integer part of the root *)
(* by bisection, then five decimal digits one at a time.                   *)
(***************************************************************************)
RECURSIVE ISqrtBetween(_, _, _)
ISqrtBetween(a, lo, hi) ==
    IF lo >= hi THEN lo
    ELSE LET mid == (lo + hi + 1) \div 2
         IN  IF mid * mid <= a THEN ISqrtBetween(a, mid, hi)
                               ELSE ISqrtBetween(a, lo, mid - 1)

\* the accumulated errors the digit expansion handles without overflow
SqrtRootCeil == 10^3
SqrtArgCeil == SqrtRootCeil * SqrtRootCeil

ISqrt(a) == ISqrtBetween(a, 0, SqrtRootCeil)

RECURSIVE SqrtDigits(_, _, _)
SqrtDigits(p, r, n) ==
    IF n = 0 THEN p
    ELSE LET r100 == r * 100
             d == CHOOSE x \in 0..9 :
                      /\ (20 * p + x) * x <= r100
                      /\ \A y \in (x + 1)..9 : (20 * p + y) * y > r100
         IN  SqrtDigits(10 * p + d, r100 - (20 * p + d) * d, n - 1)

DistScaleDigits == 5

SqrtTimes100000(a) ==
    IF a >= SqrtArgCeil THEN IntCeil
    ELSE LET s == ISqrt(a) IN SqrtDigits(s, a - s * s, DistScaleDigits)

(***************************************************************************)
(* Frames: image.RGBA values, bounds w x h and Pix of 4*w*h bytes.         *)
(***************************************************************************)
Frame(w, h, pix) == [w |-> w, h |-> h, pix |-> pix]

\* the zero value of image.RGBA, what make([]image.RGBA, n) fills with
ZeroFrame == Frame(0, 0, <<>>)

RECURSIVE AccumError(_, _, _)
AccumError(p1, p2, i) ==
    IF i > Len(p1) THEN U64FromInt(0)
    ELSE U64Add(sqDiffUInt8(p1[i], p2[i]), AccumError(p1, p2, i + 1))

\* what converting a NaN float64 to int64 gives: 0 (arm64) or the smallest
\* int64 (amd64), which the model holds as its own smallest integer
NaNToInt64 == {0, -IntCeil}

\* return 0, fmt.Errorf("image bounds not equal: ...")
MismatchResultSilent == [err |-> FALSE, dist |-> 0]
MismatchResult == [err |-> TRUE, dist |-> 0]

\* func fastCompare(img1, img2 *image.RGBA) (int64, error): the set of
\* results [err, dist] the call can have
fastCompare(img1, img2) ==
    IF img1.w # img2.w \/ img1.h # img2.h
    THEN {MismatchResult}
    ELSE LET pxcount == img1.w * img1.h
             accumError == U64ToInt(AccumError(img1.pix, img2.pix, 1))
         IN  IF pxcount = 0
             THEN {[err |-> FALSE, dist |-> d] : d \in NaNToInt64}
             ELSE {[err |-> FALSE,
                    dist |-> SqrtTimes100000(accumError) \div pxcount]}

(***************************************************************************)
(* Go integer division and remainder (truncated toward zero), and          *)
(* time.Duration.Microseconds().                                           *)
(***************************************************************************)
Abs(x) == IF x < 0 THEN -x ELSE x

GoDiv(a, b) ==
    LET q == Abs(a) \div Abs(b) IN IF (a < 0) # (b < 0) THEN -q ELSE q

GoMod(a, b) == a - b * GoDiv(a, b)

NsPerUs == 1000

Microseconds(d) == GoDiv(d, NsPerUs)

\* the "-ss" argument of task i: (interval * time.Duration(i)).Microseconds()
SeekUs(interval, i) == Microseconds(interval * i)

(***************************************************************************)
(* Paths and file names are sequences of one-character strings.            *)
(***************************************************************************)
IsSep(c) == c = "/"

RECURSIVE LastSep(_, _)
\* index of the last separator at or before position i, 0 if none
LastSep(p, i) == IF i = 0 THEN 0 ELSE IF IsSep(p[i]) THEN i ELSE LastSep(p, i - 1)

\* filepath.Split: the directory part (with its separator) and the file part
SplitDir(p) == SubSeq(p, 1, LastSep(p, Len(p)))
SplitFile(p) == SubSeq(p, LastSep(p, Len(p)) + 1, Len(p))

RECURSIVE ExtFrom(_, _)
\* filepath.Ext: the suffix from the last dot of the last path element
ExtFrom(p, i) ==
    IF i = 0 \/ IsSep(p[i]) THEN <<>>
    ELSE IF p[i] = "." THEN SubSeq(p, i, Len(p)) ELSE ExtFrom(p, i - 1)

Ext(p) == ExtFrom(p, Len(p))

\* name[:len(name)-len(filepath.Ext(name))]
Stem(name) == SubSeq(name, 1, Len(name) - Len(Ext(name)))

OutRoot == <<"o", "u", "t">>

\* "out/" + stem
OutputDirOf(stem) == OutRoot \o <<"/">> \o stem

DigitChars == <<"0", "1", "2", "3", "4", "5", "6", "7", "8", "9">>

RECURSIVE SprintNat(_)
SprintNat(n) ==
    IF n < 10 THEN <<DigitChars[n + 1]>>
    ELSE SprintNat(n \div 10) \o <<DigitChars[(n % 10) + 1]>>

\* fmt.Sprint of an int
Sprint(n) == IF n < 0 THEN <<"-">> \o SprintNat(-n) ELSE SprintNat(n)

\* outputDir + "/frame_" + stem + "_" + fmt.Sprint(i) + "." + format; the
\* literal "frame_" and the format name are one token each
FramePath(outputDir, stem, i, format) ==
    outputDir \o <<"/", "frame_">> \o stem \o <<"_">> \o Sprint(i)
              \o <<".", format>>

Formats == {"bmp", "png", "jpg", "jpeg"}

(***************************************************************************)
(* State.                                                                  *)
(***************************************************************************)
VARIABLES
    args,        \* main's args struct (Path is extended in the batch loop)
    listing,     \* [ok, names]: what ioutil.ReadDir(args.Path) returns
    videos,      \* file name -> [dur, frames]; absent: the probe fails
    dirs,        \* directories that exist
    files,       \* file path -> the frame stored in it
    pc,          \* where the main goroutine stands
    exit,        \* "running", "ok", "usage" or "panic"
    fault,       \* why the process panicked
    entryI,      \* index of the batch loop over the listing
    job,         \* the args value passed to the running pipeline
    outputDir,   \* the outputDir passed to the running pipeline
    numFrames,   \* int(runningTime / interval)
    sendI,       \* extractVideoFrames: the producer's loop index i
    chanClosed,  \* extractVideoFrames: close(c) has happened
    wg,          \* extractVideoFrames: the WaitGroup counter
    worker,      \* extractVideoFrames: worker k -> [st, idx, ss]
    supI,        \* generateSlides: the suppression loop index i
    frames,      \* streaming: the buffer of MaxFrames image.RGBA
    counter,     \* streaming: next free slot of the buffer
    numBatches, lastBatch, frameCount, numSaved,
    batchI, slotJ, slotK, cursor,
    \* history of what the run did, read by the properties only
    sent,        \* the extraction commands handed to the queue, in order
    taken,       \* task index -> how many times a worker received it
    outcome,     \* task index -> the results of its runCommand calls
    decoded,     \* streaming: the frames decoded, in order [idx, ss, batch]
    slotSrc,     \* streaming: slot -> [idx, batch] of the frame it holds
    saved,       \* streaming: the saves, in order [out, idx, batch, img]
    compared,    \* streaming: the comparisons [a, b, batch] (slot sources)
    made,        \* the directories this run created
    calls,       \* the pipeline calls of main, in order [job, outputDir]
    io,          \* counts of external operations by kind
    \* the metric called on its own
    px, py,      \* the two bytes given to sqDiffUInt8
    imgA, imgB,  \* the two frames given to fastCompare
    sq,          \* sqDiffUInt8(px, py)
    distOfAB, distOfBA, distOfAA   \* fastCompare of (A,B), (B,A) and (A,A)

mainVars == <<args, listing, videos, pc, exit, fault, entryI, job, outputDir>>
fsVars == <<dirs, files>>
diskVars == <<numFrames, sendI, chanClosed, wg, worker, supI>>
memVars == <<frames, counter, numBatches, lastBatch, frameCount, numSaved,
             batchI, slotJ, slotK, cursor>>
histVars == <<sent, taken, outcome, decoded, slotSrc, saved, compared, made,
              io>>
cmpVars == <<px, py, imgA, imgB, sq, distOfAB, distOfBA, distOfAA>>
vars == <<mainVars, fsVars, diskVars, memVars, histVars, calls, cmpVars>>

IoKinds == {"mkdir", "readdir", "probe", "extract", "read", "remove", "create"}

NoIo == [k \in IoKinds |-> 0]

Bump(kind) == [io EXCEPT ![kind] = @ + 1]
Bump2(kind, n) == [io EXCEPT ![kind] = @ + n]

\* a panic (or log.Panicf): the process dies where it stands
PanicIgnored(why) == /\ exit' = exit
                     /\ fault' = why
Panic(why) == /\ exit' = "panic"
              /\ fault' = why

Running == exit = "running"

\* ffprobe's answer for the job's file
Probed(path) == videos[SplitFile(path)]
ProbeFails(path) == SplitFile(path) \notin DOMAIN videos

\* the frame ffmpeg decodes at seek position ss (microseconds)
HasFrameAt(path, ss) ==
    /\ ~ProbeFails(path)
    /\ ss + 1 \in DOMAIN Probed(path).frames
FrameAt(path, ss) == Probed(path).frames[ss + 1]

(***************************************************************************)
(* Disk mode: extractVideoFrames.                                          *)
(***************************************************************************)
Idle == [st |-> "recv", idx |-> 0, ss |-> 0]

\* the decode failures the environment may inflict on one job
MaxFail == 1

RECURSIVE CountOf(_, _)
CountOf(seq, x) ==
    IF seq = <<>> THEN 0
    ELSE (IF Head(seq) = x THEN 1 ELSE 0) + CountOf(Tail(seq), x)

RECURSIVE SumOver(_, _)
SumOver(f, S) ==
    IF S = {} THEN 0
    ELSE LET x == CHOOSE y \in S : TRUE IN f[x] + SumOver(f, S \ {x})

\* decode failures so far in this job
Failures ==
    SumOver([i \in DOMAIN outcome |-> CountOf(outcome[i], "failed")],
            DOMAIN outcome)

\* the worker's loop after runCommand returned: the error, if any, is logged
\* and the worker goes back to receive
WorkerAfterRunRetry(w, ok) == IF ok THEN Idle ELSE w
WorkerAfterRun(w, ok) == Idle

\* wg.Add(workers) and for ii := 0; ii < workers; ii++: the goroutines started
PoolSizeAtLeastOne(workers) == IF workers < 1 THEN 1 ELSE workers
PoolSize(workers) == workers

\* wg.Done()
WgDoneMissing(n) == n
WgDone(n) == n - 1

\* wg.Wait()
JoinedNoWait == TRUE
Joined == wg = 0

\* if distAB < int64(args.Threshold)
IsNearDuplicateLE(distAB, threshold) == distAB <= threshold
IsNearDuplicate(distAB, threshold) == distAB < threshold

\* the file the suppression pass removes at iteration i
VictimCurrent(i) == i
Victim(i) == i - 1

\* ffprobe.ProbeURL, runningTime / interval, make(chan), wg.Add(workers) and
\* the start of the worker goroutines
EVFProbe ==
    /\ Running /\ pc = "evf_probe"
    /\ io' = Bump("probe")
    /\ IF ProbeFails(job.Path)
       THEN /\ Panic("probe")
            /\ UNCHANGED <<pc, diskVars, sent, taken, outcome>>
       ELSE IF job.Interval = 0
       THEN /\ Panic("divide by zero")
            /\ UNCHANGED <<pc, diskVars, sent, taken, outcome>>
       ELSE LET n == GoDiv(Probed(job.Path).dur, job.Interval) IN
            IF job.Workers < 0
            THEN /\ Panic("negative WaitGroup counter")
                 /\ numFrames' = n
                 /\ UNCHANGED <<pc, sendI, chanClosed, wg, worker, supI,
                                sent, taken, outcome>>
            ELSE /\ numFrames' = n
                 /\ sendI' = 0
                 /\ chanClosed' = FALSE
                 /\ wg' = PoolSize(job.Workers)
                 /\ worker' = [k \in 1..PoolSize(job.Workers) |-> Idle]
                 /\ sent' = <<>>
                 /\ taken' = [i \in 0..(n - 1) |-> 0]
                 /\ outcome' = [i \in 0..(n - 1) |-> <<>>]
                 /\ pc' = "evf_send"
                 /\ UNCHANGED <<exit, fault, supI>>
    /\ UNCHANGED <<args, listing, videos, entryI, job, outputDir, fsVars,
                   memVars, decoded, slotSrc, saved, compared, made>>
    /\ UNCHANGED <<calls, cmpVars>>

\* cmd, more := <-c: the worker is at its receive
ReadyToReceiveBusy(w) == w.st # "exit"
ReadyToReceive(w) == w.st = "recv"

\* c <- cmd meeting cmd, more := <-c of worker k: the channel is unbuffered
EVFSend(k) ==
    /\ Running /\ pc = "evf_send"
    /\ sendI < numFrames
    /\ ReadyToReceive(worker[k])
    /\ LET ss == SeekUs(job.Interval, sendI) IN
       /\ worker' = [worker EXCEPT ![k] = [st |-> "run", idx |-> sendI, ss |-> ss]]
       /\ sent' = Append(sent, [idx |-> sendI, ss |-> ss])
    /\ taken' = [taken EXCEPT ![sendI] = @ + 1]
    /\ sendI' = sendI + 1
    /\ UNCHANGED <<mainVars, fsVars, numFrames, chanClosed, wg, supI, memVars,
                   outcome, decoded, slotSrc, saved, compared, made, io>>
    /\ UNCHANGED <<calls, cmpVars>>

\* close(c) once the producer's loop is over
EVFClose ==
    /\ Running /\ pc = "evf_send"
    /\ sendI >= numFrames
    /\ chanClosed' = TRUE
    /\ pc' = "evf_wait"
    /\ UNCHANGED <<args, listing, videos, exit, fault, entryI, job, outputDir,
                   fsVars, numFrames, sendI, wg, worker, supI, memVars,
                   histVars>>
    /\ UNCHANGED <<calls, cmpVars>>

\* runCommand(cmd) of worker k returns: ffmpeg wrote the file, or it failed
\* and the error is logged
WorkerRun(k) ==
    /\ Running
    /\ worker[k].st = "run"
    /\ \E ok \in BOOLEAN :
         /\ ok => HasFrameAt(job.Path, worker[k].ss)
         /\ ~ok => (Failures < MaxFail \/ ~HasFrameAt(job.Path, worker[k].ss))
         /\ files' = IF ok
                     THEN LET path == FramePath(outputDir, Stem(SplitFile(job.Path)),
                                                worker[k].idx, job.Format)
                          IN  [f \in DOMAIN files \cup {path} |->
                                 IF f = path THEN FrameAt(job.Path, worker[k].ss)
                                 ELSE files[f]]
                     ELSE files
         /\ outcome' = [outcome EXCEPT ![worker[k].idx] =
                           Append(@, IF ok THEN "ok" ELSE "failed")]
         /\ worker' = [worker EXCEPT ![k] = WorkerAfterRun(worker[k], ok)]
    /\ io' = Bump("extract")
    /\ UNCHANGED <<mainVars, dirs, numFrames, sendI, chanClosed, wg, supI,
                   memVars, sent, taken, decoded, slotSrc, saved, compared, made>>
    /\ UNCHANGED <<calls, cmpVars>>

\* cmd, more := <-c on the closed channel: wg.Done() and return
WorkerExit(k) ==
    /\ Running
    /\ worker[k].st = "recv"
    /\ chanClosed
    /\ worker' = [worker EXCEPT ![k].st = "exit"]
    /\ wg' = WgDone(wg)
    /\ UNCHANGED <<mainVars, fsVars, numFrames, sendI, chanClosed, supI,
                   memVars, histVars>>
    /\ UNCHANGED <<calls, cmpVars>>

\* wg.Wait() returns and extractVideoFrames returns int(numFrames), nil
EVFWait ==
    /\ Running /\ pc = "evf_wait"
    /\ Joined
    /\ supI' = 1
    /\ pc' = "gs_loop"
    /\ UNCHANGED <<args, listing, videos, exit, fault, entryI, job, outputDir,
                   fsVars, numFrames, sendI, chanClosed, wg, worker, memVars,
                   histVars>>
    /\ UNCHANGED <<calls, cmpVars>>

(***************************************************************************)
(* Disk mode: the suppression pass of generateSlides.                      *)
(***************************************************************************)
JobStem == Stem(SplitFile(job.Path))

DiskFile(i) == FramePath(outputDir, JobStem, i, job.Format)

\* one iteration of for i := 1; i < num; i++
SuppressStep ==
    /\ Running /\ pc = "gs_loop"
    /\ supI < numFrames
    /\ LET pa == DiskFile(supI - 1)
           pb == DiskFile(supI)
       IN  IF pa \notin DOMAIN files
           THEN /\ Panic("open")
                /\ io' = Bump("read")
                /\ UNCHANGED <<files, supI>>
           ELSE IF pb \notin DOMAIN files
           THEN /\ Panic("open")
                /\ io' = Bump2("read", 2)
                /\ UNCHANGED <<files, supI>>
           ELSE \E r \in fastCompare(files[pa], files[pb]) :
                  IF r.err
                  THEN /\ Panic("image bounds not equal")
                       /\ io' = Bump2("read", 2)
                       /\ UNCHANGED <<files, supI>>
                  ELSE /\ IF IsNearDuplicate(r.dist, job.Threshold)
                          THEN /\ files' = [f \in DOMAIN files \ {DiskFile(Victim(supI))}
                                              |-> files[f]]
                               /\ io' = [io EXCEPT !["read"] = @ + 2,
                                                   !["remove"] = @ + 1]
                          ELSE /\ files' = files
                               /\ io' = Bump2("read", 2)
                       /\ supI' = supI + 1
                       /\ UNCHANGED <<exit, fault>>
    /\ UNCHANGED <<args, listing, videos, pc, entryI, job, outputDir, dirs,
                   numFrames, sendI, chanClosed, wg, worker, memVars,
                   sent, taken, outcome, decoded, slotSrc, saved, compared, made>>
    /\ UNCHANGED <<calls, cmpVars>>

\* the loop is over: generateSlides returns to main
GSReturn ==
    /\ Running /\ pc = "gs_loop"
    /\ supI >= numFrames
    /\ pc' = "main_ret"
    /\ UNCHANGED <<args, listing, videos, exit, fault, entryI, job, outputDir,
                   fsVars, diskVars, memVars, histVars>>
    /\ UNCHANGED <<calls, cmpVars>>

(***************************************************************************)
(* Streaming mode: extractVideoFramesToMemory, generateSlidesInMemory.     *)
(***************************************************************************)
NoSrc == [idx |-> -1, batch |-> -1]

\* frameCount of batch i: args.MaxFrames, or lastBatch for the last batch
FrameCountOf(i, nb, last, maxFrames) ==
    IF i = nb - 1 THEN last ELSE maxFrames

\* if distAB >= int64(args.Threshold)
IsDifferent(distAB, threshold) == distAB >= threshold

\* numSaved++
NextSavedStuck(n) == n
NextSaved(n) == n + 1

\* the slot the next comparison takes as its left operand
CompareBase(cur, k) == cur

\* saveFileFromMemory: os.Create and the encoder; its error is dropped by
\* the caller
SaveFile(dir, path, count, img) ==
    IF dir \in dirs
    THEN LET f == FramePath(dir, Stem(SplitFile(path)), count, job.Format)
         IN  [g \in DOMAIN files \cup {f} |-> IF g = f THEN img ELSE files[g]]
    ELSE files

\* ffprobe.ProbeURL, the batch arithmetic and make([]image.RGBA, MaxFrames)
MemProbe ==
    /\ Running /\ pc = "mem_probe"
    /\ io' = Bump("probe")
    /\ IF ProbeFails(job.Path)
       THEN /\ Panic("probe")
            /\ UNCHANGED <<pc, numFrames, memVars, decoded, slotSrc, saved,
                           compared>>
       ELSE IF job.Interval = 0
       THEN /\ Panic("divide by zero")
            /\ UNCHANGED <<pc, numFrames, memVars, decoded, slotSrc, saved,
                           compared>>
       ELSE IF job.MaxFrames < 0
       THEN /\ Panic("makeslice: len out of range")
            /\ UNCHANGED <<pc, numFrames, memVars, decoded, slotSrc, saved,
                           compared>>
       ELSE IF job.MaxFrames = 0
       THEN /\ Panic("divide by zero")
            /\ UNCHANGED <<pc, numFrames, memVars, decoded, slotSrc, saved,
                           compared>>
       ELSE LET n == GoDiv(Probed(job.Path).dur, job.Interval) IN
            /\ numFrames' = n
            /\ frames' = [k \in 1..job.MaxFrames |-> ZeroFrame]
            /\ slotSrc' = [k \in 1..job.MaxFrames |-> NoSrc]
            /\ counter' = 0
            /\ numBatches' = GoDiv(n, job.MaxFrames)
                               + (IF GoMod(n, job.MaxFrames) # 0 THEN 1 ELSE 0)
            /\ lastBatch' = GoMod(n, job.MaxFrames)
            /\ numSaved' = 0
            /\ batchI' = 0
            /\ decoded' = <<>> /\ saved' = <<>> /\ compared' = <<>>
            /\ pc' = "mem_batch"
            /\ UNCHANGED <<exit, fault, frameCount, slotJ, slotK, cursor>>
    /\ UNCHANGED <<args, listing, videos, entryI, job, outputDir, fsVars,
                   sendI, chanClosed, wg, worker, supI, sent, taken, outcome,
                   made>>
    /\ UNCHANGED <<calls, cmpVars>>

\* the head of for i := 0; i < numBatches; i++
MemBatch ==
    /\ Running /\ pc = "mem_batch"
    /\ batchI < numBatches
    /\ counter' = 0
    /\ frameCount' = FrameCountOf(batchI, numBatches, lastBatch, job.MaxFrames)
    /\ slotJ' = 0
    /\ pc' = "mem_extract"
    /\ UNCHANGED <<args, listing, videos, exit, fault, entryI, job, outputDir,
                   fsVars, diskVars, frames, numBatches, lastBatch, numSaved,
                   batchI, slotK, cursor, histVars>>
    /\ UNCHANGED <<calls, cmpVars>>

\* one iteration of for j := 0; j < frameCount; j++: ffmpeg to a pipe, the
\* decoder, and the copy into frames[counter]
MemExtract ==
    /\ Running /\ pc = "mem_extract"
    /\ slotJ < frameCount
    /\ LET idx == batchI * job.MaxFrames + slotJ
           ss == SeekUs(job.Interval, idx)
       IN  \E ok \in BOOLEAN :
             /\ ok => HasFrameAt(job.Path, ss)
             /\ io' = Bump("extract")
             /\ IF ok
                THEN /\ frames' = [frames EXCEPT ![counter + 1] = FrameAt(job.Path, ss)]
                     /\ slotSrc' = [slotSrc EXCEPT ![counter + 1] =
                                       [idx |-> idx, batch |-> batchI]]
                     /\ decoded' = Append(decoded,
                                      [idx |-> idx, ss |-> ss, batch |-> batchI])
                     /\ counter' = counter + 1
                     /\ slotJ' = slotJ + 1
                     /\ UNCHANGED <<exit, fault>>
                ELSE /\ Panic("decode")
                     /\ UNCHANGED <<frames, slotSrc, decoded, counter, slotJ>>
    /\ UNCHANGED <<args, listing, videos, pc, entryI, job, outputDir, fsVars,
                   diskVars, numBatches, lastBatch, frameCount, numSaved,
                   batchI, slotK, cursor, sent, taken, outcome, saved, compared, made>>
    /\ UNCHANGED <<calls, cmpVars>>

\* cursor := 0; numSaved++; saveFileFromMemory(..., frames[cursor])
MemSaveFirst ==
    /\ Running /\ pc = "mem_extract"
    /\ slotJ >= frameCount
    /\ cursor' = 0
    /\ numSaved' = NextSaved(numSaved)
    /\ files' = SaveFile(outputDir, job.Path, NextSaved(numSaved), frames[1])
    /\ saved' = Append(saved, [out |-> NextSaved(numSaved), idx |-> slotSrc[1].idx,
                               batch |-> batchI, from |-> slotSrc[1].batch,
                               img |-> frames[1]])
    /\ io' = Bump("create")
    /\ slotK' = 1
    /\ pc' = "mem_compare"
    /\ UNCHANGED <<args, listing, videos, exit, fault, entryI, job, outputDir,
                   dirs, diskVars, frames, counter, numBatches, lastBatch,
                   frameCount, batchI, slotJ, sent, taken, outcome, decoded,
                   slotSrc, compared, made>>
    /\ UNCHANGED <<calls, cmpVars>>

\* one iteration of for k := 1; k < frameCount; k++
MemCompare ==
    /\ Running /\ pc = "mem_compare"
    /\ slotK < frameCount
    /\ LET base == CompareBase(cursor, slotK) IN
       /\ compared' = Append(compared, [a |-> slotSrc[base + 1],
                                        b |-> slotSrc[slotK + 1],
                                        batch |-> batchI])
       /\ \E r \in fastCompare(frames[base + 1], frames[slotK + 1]) :
            IF r.err
            THEN /\ Panic("image bounds not equal")
                 /\ UNCHANGED <<files, cursor, numSaved, saved, slotK, io>>
            ELSE /\ IF IsDifferent(r.dist, job.Threshold)
                    THEN /\ cursor' = slotK
                         /\ numSaved' = NextSaved(numSaved)
                         /\ files' = SaveFile(outputDir, job.Path, NextSaved(numSaved),
                                              frames[slotK + 1])
                         /\ saved' = Append(saved,
                                       [out |-> NextSaved(numSaved),
                                        idx |-> slotSrc[slotK + 1].idx,
                                        batch |-> batchI,
                                        from |-> slotSrc[slotK + 1].batch,
                                        img |-> frames[slotK + 1]])
                         /\ io' = Bump("create")
                    ELSE UNCHANGED <<files, cursor, numSaved, saved, io>>
                 /\ slotK' = slotK + 1
                 /\ UNCHANGED <<exit, fault>>
    /\ UNCHANGED <<args, listing, videos, pc, entryI, job, outputDir, dirs,
                   diskVars, frames, counter, numBatches, lastBatch,
                   frameCount, batchI, slotJ, sent, taken, outcome, decoded,
                   slotSrc, made>>
    /\ UNCHANGED <<calls, cmpVars>>

\* the comparison loop is over: on to the next batch
MemBatchEnd ==
    /\ Running /\ pc = "mem_compare"
    /\ slotK >= frameCount
    /\ batchI' = batchI + 1
    /\ pc' = "mem_batch"
    /\ UNCHANGED <<args, listing, videos, exit, fault, entryI, job, outputDir,
                   fsVars, diskVars, frames, counter, numBatches, lastBatch,
                   frameCount, numSaved, slotJ, slotK, cursor, histVars>>
    /\ UNCHANGED <<calls, cmpVars>>

\* the batch loop is over: return int(numFrames), nil; generateSlidesInMemory
\* returns to main
MemReturn ==
    /\ Running /\ pc = "mem_batch"
    /\ batchI >= numBatches
    /\ pc' = "main_ret"
    /\ UNCHANGED <<args, listing, videos, exit, fault, entryI, job, outputDir,
                   fsVars, diskVars, memVars, histVars>>
    /\ UNCHANGED <<calls, cmpVars>>

(***************************************************************************)
(* main.                                                                   *)
(***************************************************************************)
\* os.Mkdir: fails when the directory exists or its parent does not
MkdirOk(d) ==
    /\ d \notin dirs
    /\ (SplitDir(d) = <<>> \/ SubSeq(d, 1, Len(SplitDir(d)) - 1) \in dirs)

\* the pipeline main calls for a job
PipelineEntry(a) == IF a.InMemory # 0 THEN "mem_probe" ELSE "evf_probe"

\* os.Mkdir("out", 0755), its error dropped
MainMkdirOut ==
    /\ Running /\ pc = "main_start"
    /\ dirs' = dirs \cup {OutRoot}
    /\ made' = IF MkdirOk(OutRoot) THEN made \cup {OutRoot} ELSE made
    /\ io' = Bump("mkdir")
    /\ pc' = "main_parse"
    /\ UNCHANGED <<args, listing, videos, exit, fault, entryI, job, outputDir,
                   files, diskVars, memVars, sent, taken, outcome, decoded,
                   slotSrc, saved, compared>>
    /\ UNCHANGED <<calls, cmpVars>>

\* arg.MustParse and the format check; p.Fail prints the usage and exits
MainParse ==
    /\ Running /\ pc = "main_parse"
    /\ IF args.Format \notin Formats
       THEN /\ exit' = "usage"
            /\ UNCHANGED pc
       ELSE /\ pc' = IF args.Batch # 0 THEN "main_readdir" ELSE "main_single"
            /\ UNCHANGED exit
    /\ UNCHANGED <<args, listing, videos, fault, entryI, job, outputDir,
                   fsVars, diskVars, memVars, histVars>>
    /\ UNCHANGED <<calls, cmpVars>>

\* ioutil.ReadDir(args.Path)
MainReadDir ==
    /\ Running /\ pc = "main_readdir"
    /\ io' = Bump("readdir")
    /\ IF listing.ok
       THEN /\ entryI' = 1
            /\ pc' = "main_entry"
            /\ UNCHANGED <<exit, fault>>
       ELSE /\ Panic("readdir")
            /\ UNCHANGED <<entryI, pc>>
    /\ UNCHANGED <<args, listing, videos, job, outputDir, fsVars, diskVars,
                   memVars, sent, taken, outcome, decoded, slotSrc, saved,
                   compared, made>>
    /\ UNCHANGED <<calls, cmpVars>>

\* args.Path with a separator appended unless it ends in "/" or "\"
WithSlash(path) ==
    IF path[Len(path)] # "/" /\ path[Len(path)] # "\\"
    THEN path \o <<"/">> ELSE path

\* one iteration of for _, file := range fileInfo, up to the pipeline call
MainEntry ==
    /\ Running /\ pc = "main_entry"
    /\ entryI <= Len(listing.names)
    /\ LET name == listing.names[entryI]
           dir == OutputDirOf(Stem(name))
       IN  /\ io' = Bump("mkdir")
           /\ IF ~MkdirOk(dir)
              THEN /\ Panic("mkdir")
                   /\ UNCHANGED <<args, job, outputDir, dirs, made, pc, calls>>
              ELSE IF Len(args.Path) = 0
              THEN /\ Panic("slice bounds out of range")
                   /\ dirs' = dirs \cup {dir}
                   /\ made' = made \cup {dir}
                   /\ UNCHANGED <<args, job, outputDir, pc, calls>>
              ELSE /\ dirs' = dirs \cup {dir}
                   /\ made' = made \cup {dir}
                   /\ outputDir' = dir
                   /\ args' = [args EXCEPT !.Path = WithSlash(args.Path)]
                   /\ job' = [args EXCEPT !.Path = WithSlash(args.Path) \o name]
                   /\ calls' = Append(calls,
                                  [job |-> [args EXCEPT !.Path = WithSlash(args.Path) \o name],
                                   outputDir |-> dir])
                   /\ pc' = PipelineEntry(args)
                   /\ UNCHANGED <<exit, fault>>
    /\ UNCHANGED <<listing, videos, entryI, files, diskVars, memVars, sent,
                   taken, outcome, decoded, slotSrc, saved, compared>>
    /\ UNCHANGED cmpVars

\* the range loop is over: main returns
MainBatchDone ==
    /\ Running /\ pc = "main_entry"
    /\ entryI > Len(listing.names)
    /\ exit' = "ok"
    /\ UNCHANGED <<args, listing, videos, pc, fault, entryI, job, outputDir,
                   fsVars, diskVars, memVars, histVars>>
    /\ UNCHANGED <<calls, cmpVars>>

\* the else branch: one video, up to the pipeline call
MainSingle ==
    /\ Running /\ pc = "main_single"
    /\ LET dir == OutputDirOf(Stem(SplitFile(args.Path))) IN
       /\ io' = Bump("mkdir")
       /\ IF ~MkdirOk(dir)
          THEN /\ Panic("mkdir")
               /\ UNCHANGED <<job, outputDir, dirs, made, pc, calls>>
          ELSE /\ dirs' = dirs \cup {dir}
               /\ made' = made \cup {dir}
               /\ outputDir' = dir
               /\ job' = args
               /\ calls' = Append(calls, [job |-> args, outputDir |-> dir])
               /\ pc' = PipelineEntry(args)
               /\ UNCHANGED <<exit, fault>>
    /\ UNCHANGED <<args, listing, videos, entryI, files, diskVars, memVars,
                   sent, taken, outcome, decoded, slotSrc, saved, compared>>
    /\ UNCHANGED cmpVars

\* the pipeline returned: next entry of the batch, or the end of main
MainRet ==
    /\ Running /\ pc = "main_ret"
    /\ IF args.Batch # 0
       THEN /\ entryI' = entryI + 1
            /\ pc' = "main_entry"
            /\ UNCHANGED exit
       ELSE /\ exit' = "ok"
            /\ UNCHANGED <<entryI, pc>>
    /\ UNCHANGED <<args, listing, videos, fault, job, outputDir, fsVars,
                   diskVars, memVars, histVars>>
    /\ UNCHANGED <<calls, cmpVars>>

(***************************************************************************)
(* Inputs.                                                                 *)
(***************************************************************************)
\* 1x1 frames differing in the red channel, and one 2x1 frame
FA == Frame(1, 1, <<0, 0, 0, 255>>)
FB == Frame(1, 1, <<1, 0, 0, 255>>)
FC == Frame(1, 1, <<2, 0, 0, 255>>)
FD == Frame(1, 1, <<4, 0, 0, 255>>)
FW == Frame(2, 1, <<0, 0, 0, 255, 0, 0, 0, 255>>)

\* the default of args.Threshold, and the distance of FA from FC
DefaultThreshold == 1000
WideThreshold == 2 * 10^5

DefaultMaxFrames == 25
DefaultWorkers == 8

VideoName == <<"a", ".", "m">>

\* longest video, in microseconds
MaxDurUs == 4
MaxWorkers == 2

\* videos of k microseconds whose frames come from pool
VideosOf(k, pool) ==
    {[dur |-> k * NsPerUs, frames |-> fr] : fr \in [1..k -> pool]}

DefaultArgs ==
    [Path |-> VideoName, Interval |-> NsPerUs, Threshold |-> DefaultThreshold,
     InMemory |-> 0, Workers |-> DefaultWorkers, MaxFrames |-> DefaultMaxFrames,
     Format |-> "bmp", Batch |-> 0]

NoFiles == [f \in {} |-> FA]

\* the history and the pipelines' locals before anything ran
InitIdle ==
    /\ numFrames = 0 /\ sendI = 0 /\ chanClosed = FALSE /\ wg = 0
    /\ worker = <<>> /\ supI = 0
    /\ frames = <<>> /\ counter = 0 /\ numBatches = 0 /\ lastBatch = 0
    /\ frameCount = 0 /\ numSaved = 0 /\ batchI = 0 /\ slotJ = 0
    /\ slotK = 0 /\ cursor = 0
    /\ sent = <<>> /\ taken = <<>> /\ outcome = <<>> /\ decoded = <<>>
    /\ slotSrc = <<>> /\ saved = <<>> /\ compared = <<>>
    /\ io = NoIo /\ calls = <<>>
    /\ exit = "running" /\ fault = ""

\* the metric has not been called on its own
CmpIdle ==
    /\ px = 0 /\ py = 0 /\ imgA = ZeroFrame /\ imgB = ZeroFrame
    /\ sq = <<>> /\ distOfAB = {} /\ distOfBA = {} /\ distOfAA = {}

\* main has parsed a, created out/ and out/<stem>, and calls the pipeline
InitCall(a, v) ==
    /\ args = a
    /\ job = a
    /\ listing = [ok |-> FALSE, names |-> <<>>]
    /\ entryI = 0
    /\ videos = [n \in {SplitFile(a.Path)} |-> v]
    /\ outputDir = OutputDirOf(Stem(SplitFile(a.Path)))
    /\ dirs = {OutRoot, OutputDirOf(Stem(SplitFile(a.Path)))}
    /\ files = NoFiles
    /\ made = {OutRoot, OutputDirOf(Stem(SplitFile(a.Path)))}
    /\ InitIdle
    /\ CmpIdle

\* sampling intervals that are not whole microseconds
OddIntervals == {NsPerUs \div 2, (3 * NsPerUs) \div 2}

\* longest video that holds a frame of other bounds
MixedDurUs == 2

InitDisk ==
    /\ pc = "evf_probe"
    /\ \/ \E k \in 0..MaxDurUs :
            \E v \in VideosOf(k, {FA, FB, FC, FD}) :
              InitCall([DefaultArgs EXCEPT !.Workers = 1,
                                           !.Threshold = WideThreshold], v)
       \/ \E w \in 2..MaxWorkers, k \in 0..MaxDurUs :
            \E v \in VideosOf(k, {FA, FC}) :
              InitCall([DefaultArgs EXCEPT !.Workers = w,
                                           !.Threshold = WideThreshold], v)
       \/ \E w \in 0..1, k \in 0..MaxDurUs :
            \E v \in VideosOf(k, {FA}), t \in OddIntervals :
              InitCall([DefaultArgs EXCEPT !.Workers = w, !.Interval = t], v)
       \/ \E k \in 1..MixedDurUs :
            \E v \in VideosOf(k, {FA, FW}) :
              InitCall([DefaultArgs EXCEPT !.Workers = 1], v)

NextDisk ==
    \/ EVFProbe
    \/ \E k \in DOMAIN worker : EVFSend(k)
    \/ EVFClose
    \/ \E k \in DOMAIN worker : WorkerRun(k)
    \/ \E k \in DOMAIN worker : WorkerExit(k)
    \/ EVFWait
    \/ SuppressStep
    \/ GSReturn

SpecDisk == InitDisk /\ [][NextDisk]_vars

\* the Go scheduler runs every goroutine that can take a step, a hand-off on
\* the channel happens once both sides wait for it, and every ffmpeg call
\* returns
FairDisk ==
    /\ WF_vars(EVFProbe)
    /\ WF_vars(\E k \in DOMAIN worker : EVFSend(k))
    /\ WF_vars(EVFClose)
    /\ WF_vars(\E k \in DOMAIN worker : WorkerRun(k))
    /\ WF_vars(\E k \in DOMAIN worker : WorkerExit(k))
    /\ WF_vars(EVFWait)

\* every worker count from none to MaxWorkers on every task count
InitDiskPool ==
    /\ pc = "evf_probe"
    /\ \E w \in 0..MaxWorkers, k \in 0..MaxDurUs :
         \E v \in VideosOf(k, IF w <= 1 THEN {FA, FD} ELSE {FA}) :
           InitCall([DefaultArgs EXCEPT !.Workers = w,
                                        !.Threshold = WideThreshold], v)

SpecDiskFair == InitDiskPool /\ [][NextDisk]_vars /\ FairDisk

\* longest video of the streaming runs, in microseconds, and the largest
\* buffer
MaxMemDurUs == 6
MaxBuf == 5

InitMem ==
    /\ pc = "mem_probe"
    /\ \/ \E m \in 1..MaxBuf, k \in 0..MaxMemDurUs :
            \E v \in VideosOf(k, {FA, FB, FC}) :
              InitCall([DefaultArgs EXCEPT !.InMemory = 1, !.MaxFrames = m,
                                           !.Threshold = WideThreshold], v)
       \/ \E m \in 0..MaxBuf, k \in 0..MaxDurUs :
            \E v \in VideosOf(k, {FA}), t \in OddIntervals :
              InitCall([DefaultArgs EXCEPT !.InMemory = 1, !.MaxFrames = m,
                                           !.Interval = t], v)
       \/ \E m \in 1..MaxBuf, k \in 1..MixedDurUs :
            \E v \in VideosOf(k, {FA, FW}) :
              InitCall([DefaultArgs EXCEPT !.InMemory = 1, !.MaxFrames = m], v)

NextMem ==
    \/ MemProbe
    \/ MemBatch
    \/ MemExtract
    \/ MemSaveFirst
    \/ MemCompare
    \/ MemBatchEnd
    \/ MemReturn

SpecMem == InitMem /\ [][NextMem]_vars

(***************************************************************************)
(* The whole program, from the start of main.                              *)
(***************************************************************************)
NameA == <<"a", ".", "m">>
NameA2 == <<"a", ".", "k">>
NameB == <<"b", ".", "m">>
FolderV == <<"v">>

\* longest video of a whole-program run, in microseconds
MaxMainDurUs == 2

NoListing == [ok |-> FALSE, names |-> <<>>]

\* directory listings, in ReadDir's name order
Listings ==
    {[ok |-> TRUE, names |-> ns] :
        ns \in {<<>>, <<NameA>>, <<NameA, NameB>>, <<NameA2, NameA>>}}

\* the files of the folder that ffprobe can read
Probeable == {{NameA, NameA2}, {NameA, NameA2, NameB}, {NameB}}

\* what is on disk before the run: nothing, out/, or out/ with a stale out/a
StartDirs == {{}, {OutRoot}, {OutRoot, OutputDirOf(Stem(NameA))}}

InitMainIdle(a, l, vs, ds) ==
    /\ pc = "main_start"
    /\ args = a
    /\ job = a
    /\ listing = l
    /\ videos = vs
    /\ entryI = 0
    /\ outputDir = <<>>
    /\ dirs = ds
    /\ files = NoFiles
    /\ made = {}
    /\ InitIdle
    /\ CmpIdle

\* sampling intervals, valid and not
MainIntervals == {NsPerUs, 0, -NsPerUs}

Init ==
    \* one video: every format, interval and pipeline
    \/ \E f \in Formats \cup {"gif"}, t \in MainIntervals, im \in {0, 1},
          m \in 1..2, k \in 0..MaxMainDurUs, ds \in StartDirs :
         \E v \in VideosOf(k, {FA}) :
           InitMainIdle([DefaultArgs EXCEPT !.Format = f, !.Interval = t,
                                            !.InMemory = im, !.MaxFrames = m,
                                            !.Workers = 1],
                        NoListing, [n \in {NameA} |-> v], ds)
    \* one video that cannot be probed
    \/ \E im \in {0, 1} :
         InitMainIdle([DefaultArgs EXCEPT !.InMemory = im, !.Workers = 1],
                      NoListing, [n \in {} |-> 0], {})
    \* a folder of videos, out/ absent at the start
    \/ \E l \in Listings \cup {NoListing}, im \in {0, 1},
          k1 \in 0..MaxMainDurUs, k2 \in 1..MaxMainDurUs, ps \in Probeable :
         \E v1 \in VideosOf(k1, {FA, FC}), v2 \in VideosOf(k2, {FA, FW}) :
           InitMainIdle([DefaultArgs EXCEPT !.Path = FolderV, !.Batch = 1,
                                            !.InMemory = im, !.Workers = 2,
                                            !.MaxFrames = 3,
                                            !.Threshold = WideThreshold],
                        l, [n \in (IF l.names = <<NameA, NameB>>
                                     THEN ps ELSE {NameA, NameA2})
                              |-> IF n = NameA2 THEN v2 ELSE v1],
                        {})
    \* a folder of one-frame videos, named with or without the separator,
    \* whatever is on disk at the start
    \/ \E l \in Listings \cup {NoListing}, im \in {0, 1},
          p \in {FolderV, FolderV \o <<"/">>}, ds \in StartDirs :
         \E v \in VideosOf(1, {FA}) :
           InitMainIdle([DefaultArgs EXCEPT !.Path = p, !.Batch = 1,
                                            !.InMemory = im, !.Workers = 2,
                                            !.MaxFrames = 3,
                                            !.Threshold = WideThreshold],
                        l, [n \in {NameA, NameA2, NameB} |-> v], ds)

Next ==
    \/ MainMkdirOut
    \/ MainParse
    \/ MainReadDir
    \/ MainEntry
    \/ MainBatchDone
    \/ MainSingle
    \/ MainRet
    \/ NextDisk
    \/ NextMem

Spec == Init /\ [][Next]_vars

(***************************************************************************)
(* The metric on its own: sqDiffUInt8 on a pair of bytes, then fastCompare *)
(* on a pair of frames of equal bounds, both ways round and on (A, A).     *)
(***************************************************************************)
Bytes == 0..(LimbBase - 1)

\* channel values of the frames compared
CmpBytes == {0, 1, LimbBase - 1}
EndBytes == {0, LimbBase - 1}

\* frames as a decoder returns them: at least one pixel, four bytes each
CmpFrames1 == {Frame(1, 1, p) : p \in [1..4 -> CmpBytes]}
CmpFrames2 ==
    {Frame(2, 1, <<p[1], p[2], p[3], LimbBase - 1, p[4], p[5], p[6], LimbBase - 1>>) :
        p \in [1..6 -> EndBytes]}

InitCmp ==
    /\ args = DefaultArgs /\ job = DefaultArgs
    /\ listing = [ok |-> FALSE, names |-> <<>>]
    /\ entryI = 0
    /\ videos = [n \in {} |-> 0]
    /\ outputDir = <<>>
    /\ dirs = {} /\ files = NoFiles /\ made = {}
    /\ InitIdle
    /\ sq = <<>> /\ distOfAB = {} /\ distOfBA = {} /\ distOfAA = {}
    /\ \/ /\ pc = "cmp_sq"
          /\ px \in Bytes /\ py \in Bytes
          /\ imgA = ZeroFrame /\ imgB = ZeroFrame
       \/ /\ pc = "cmp_dist"
          /\ px = 0 /\ py = 0
          /\ \/ imgA \in CmpFrames1 /\ imgB \in CmpFrames1
             \/ imgA \in CmpFrames2 /\ imgB \in CmpFrames2

\* sqDiffUInt8(px, py)
CmpSqDiff ==
    /\ pc = "cmp_sq"
    /\ sq' = sqDiffUInt8(px, py)
    /\ pc' = "cmp_done"
    /\ UNCHANGED <<args, listing, videos, exit, fault, entryI, job, outputDir,
                   fsVars, diskVars, memVars, histVars, px, py, imgA, imgB,
                   distOfAB, distOfBA, distOfAA>>
    /\ UNCHANGED calls

\* fastCompare(A, B), fastCompare(B, A), fastCompare(A, A)
CmpDist ==
    /\ pc = "cmp_dist"
    /\ distOfAB' = fastCompare(imgA, imgB)
    /\ distOfBA' = fastCompare(imgB, imgA)
    /\ distOfAA' = fastCompare(imgA, imgA)
    /\ pc' = "cmp_done"
    /\ UNCHANGED <<args, listing, videos, exit, fault, entryI, job, outputDir,
                   fsVars, diskVars, memVars, histVars, px, py, imgA, imgB, sq>>
    /\ UNCHANGED calls

NextCmp ==
    \/ CmpSqDiff
    \/ CmpDist

SpecCmp == InitCmp /\ [][NextCmp]_vars

(***************************************************************************)
(* Properties.                                                             *)
(***************************************************************************)
\* the frame the video shows at sampled index i of the running job
JobFrame(i) == FrameAt(job.Path, SeekUs(job.Interval, i))

\* distance below the threshold / at or above it, for frames of equal bounds
NearDup(a, b) ==
    \A r \in fastCompare(a, b) : ~r.err /\ r.dist < job.Threshold
Differ(a, b) ==
    \A r \in fastCompare(a, b) : ~r.err /\ r.dist >= job.Threshold

DiskJob == job.InMemory = 0
MemJob == job.InMemory # 0

\* the indices whose file is on disk
Survivors == {i \in 0..(numFrames - 1) : DiskFile(i) \in DOMAIN files}

OkTasks == {i \in DOMAIN outcome : outcome[i] = <<"ok">>}
FailedTasks == {i \in DOMAIN outcome : outcome[i] = <<"failed">>}
AllExtracted == \A i \in DOMAIN outcome : outcome[i] = <<"ok">>

\* C1: disk mode, every sampled file present: when the suppression pass is
\* over, file i < n-1 is on disk exactly if the original frames i and i+1
\* are at a distance >= threshold, file n-1 is on disk, and every file left
\* holds its original frame.
C1_DiskKeepsLastOfRun ==
    (DiskJob /\ pc = "main_ret" /\ AllExtracted) =>
        \A i \in 0..(numFrames - 1) :
            /\ (i \in Survivors) <=>
                   (i = numFrames - 1 \/ Differ(JobFrame(i), JobFrame(i + 1)))
            /\ (i \in Survivors) => files[DiskFile(i)] = JobFrame(i)

\* frames 0,1,2 mutually near-identical, frame 3 different from each of
\* them, the pass over: files 2 and 3 are what is left
C1_Witness ==
    /\ DiskJob /\ pc = "main_ret" /\ AllExtracted /\ numFrames = 4
    /\ \A i, j \in 0..2 : NearDup(JobFrame(i), JobFrame(j))
    /\ \A i \in 0..2 : Differ(JobFrame(i), JobFrame(3))
    /\ \E i \in 0..2 : JobFrame(i) # JobFrame(0)
    /\ Survivors = {2, 3}

\* C5: disk mode, a file of the pair (i-1, i) missing: the iteration is
\* skipped, nothing is deleted, the job goes on with i+1.
C5_MissingFileSkipped ==
    [][(/\ DiskJob /\ Running /\ pc = "gs_loop" /\ supI < numFrames
        /\ (DiskFile(supI - 1) \notin DOMAIN files
              \/ DiskFile(supI) \notin DOMAIN files))
       => (exit' = "running" /\ files' = files /\ supI' = supI + 1)]_vars

\* C6: disk mode: no task is received twice or run more often than it was
\* received; when the extraction phase is over every dispatched task was
\* received once and run once, failed or not, the tasks that succeeded are
\* the dispatched ones less the failed ones, and their files are on disk.
C6_FailureIsolation ==
    /\ \A i \in DOMAIN taken : taken[i] <= 1 /\ Len(outcome[i]) <= taken[i]
    /\ (DiskJob /\ pc \in {"gs_loop", "main_ret"}) =>
         /\ \A k \in 1..Len(sent) : sent[k].idx = k - 1
         /\ DOMAIN taken = {sent[k].idx : k \in 1..Len(sent)}
         /\ \A i \in DOMAIN taken : taken[i] = 1 /\ Len(outcome[i]) = 1
         /\ Cardinality(OkTasks) = Len(sent) - Cardinality(FailedTasks)
         /\ io["extract"] >= Len(sent)
    /\ (DiskJob /\ pc = "gs_loop" /\ supI = 1 /\ Running) =>
         Survivors = OkTasks

\* a task failed and a task dispatched after it was still run to success
C6_Witness ==
    /\ DiskJob /\ pc = "gs_loop" /\ supI = 1 /\ job.Workers = 1
    /\ \E i, j \in DOMAIN outcome :
         i < j /\ outcome[i] = <<"failed">> /\ outcome[j] = <<"ok">>

\* the queue is closed, every worker has returned, no task is pending or
\* running
ExtractionOver ==
    /\ chanClosed
    /\ \A k \in DOMAIN worker : worker[k].st = "exit"
    /\ \A i \in DOMAIN outcome : Len(outcome[i]) = 1

\* C7: disk mode: a step that reads or removes a frame file is taken only
\* once the extraction is over.
C7_SuppressAfterExtraction ==
    [][(io'["read"] > io["read"] \/ io'["remove"] > io["remove"])
       => ExtractionOver]_vars

\* the pass has removed a file of a job extracted by two workers
C7_Witness ==
    /\ DiskJob /\ pc = "gs_loop" /\ io["remove"] > 0
    /\ job.Workers = 2 /\ numFrames >= 2
    /\ ExtractionOver

\* C8: disk mode, T > 0: floor(D/T) tasks are dispatched, task i asks for
\* the timestamp i*T and writes file i, in strictly increasing timestamp
\* order.
C8_SamplerTimestamps ==
    (DiskJob /\ pc \in {"gs_loop", "main_ret"} /\ job.Interval > 0) =>
        /\ Len(sent) = Probed(job.Path).dur \div job.Interval
        /\ \A k \in 1..Len(sent) :
             /\ sent[k].idx = k - 1
             /\ sent[k].ss * NsPerUs = (k - 1) * job.Interval
        /\ \A k \in 2..Len(sent) : sent[k - 1].ss < sent[k].ss

\* the slots a cursor walk over frames fr[from..], cursor at cur, persists
RECURSIVE KeepFirst(_, _, _)
KeepFirst(fr, k, cur) ==
    IF k > Len(fr) THEN {}
    ELSE IF Differ(fr[cur], fr[k])
         THEN {k} \cup KeepFirst(fr, k + 1, k)
         ELSE KeepFirst(fr, k + 1, cur)

\* the sampled indices from..to-1 a cursor walk starting at from persists
KeptOf(from, to) ==
    LET fr == [k \in 1..(to - from) |-> JobFrame(from + k - 1)]
    IN  {from + k - 1 : k \in {1} \cup KeepFirst(fr, 2, 1)}

SavedIdx == {saved[k].idx : k \in 1..Len(saved)}

\* C2: streaming mode, the whole video in one batch of m frames,
\* 1 <= m <= maxFrames: what is persisted is sampled frame 0 and each later
\* frame at a distance >= threshold from the frame persisted last.
C2_StreamKeepsFirstOfChange ==
    (MemJob /\ pc = "main_ret" /\ job.Interval > 0
       /\ 1 <= numFrames /\ numFrames <= job.MaxFrames) =>
        /\ SavedIdx = KeptOf(0, numFrames)
        /\ Len(saved) = Cardinality(SavedIdx)
        /\ \A k \in 1..Len(saved) : saved[k].img = JobFrame(saved[k].idx)

\* the frames decoded while batch b was processed
DecodedIn(b) == {k \in 1..Len(decoded) : decoded[k].batch = b}

\* C3: streaming mode, T > 0, maxFrames >= 1: indices 0..n-1 are each
\* decoded once, in ascending order, at timestamp index*T; every batch but
\* the last holds maxFrames frames, the last one between 1 and maxFrames
\* (maxFrames when n is a multiple of it); with n = 0 nothing is decoded
\* or persisted.
C3_StreamBatchesPartition ==
    (MemJob /\ pc = "main_ret" /\ job.Interval > 0 /\ job.MaxFrames >= 1) =>
        LET n == Probed(job.Path).dur \div job.Interval
            nb == (n + job.MaxFrames - 1) \div job.MaxFrames
        IN  /\ Len(decoded) = n
            /\ \A k \in 1..Len(decoded) :
                 /\ decoded[k].idx = k - 1
                 /\ decoded[k].ss * NsPerUs = (k - 1) * job.Interval
            /\ \A b \in 0..(nb - 2) :
                 Cardinality(DecodedIn(b)) = job.MaxFrames
            /\ nb >= 1 =>
                 /\ Cardinality(DecodedIn(nb - 1)) \in 1..job.MaxFrames
                 /\ (n % job.MaxFrames = 0 =>
                       Cardinality(DecodedIn(nb - 1)) = job.MaxFrames)
            /\ n = 0 => (decoded = <<>> /\ saved = <<>>)

\* C4: streaming mode, six pairwise near-identical frames, maxFrames = 3:
\* two batches of three frames are processed and two slides persisted,
\* sampled frame 0 as output 1 and sampled frame 3 as output 2, where one
\* pass over the six frames would persist one.
C4_BoundaryArtifact ==
    (/\ MemJob /\ pc = "main_ret" /\ job.Interval = NsPerUs
     /\ numFrames = 6 /\ job.MaxFrames = 3
     /\ \A i, j \in 0..5 : NearDup(JobFrame(i), JobFrame(j))) =>
        /\ Len(decoded) = 6
        /\ Cardinality(DecodedIn(0)) = 3 /\ Cardinality(DecodedIn(1)) = 3
        /\ [k \in 1..Len(saved) |-> <<saved[k].out, saved[k].idx>>]
             = << <<1, 0>>, <<2, 3>> >>
        /\ Cardinality(KeptOf(0, 6)) = 1

\* C9: an interval of zero or less is rejected before the duration probe:
\* no probe, no extraction, no slide write, and the job ends neither in a
\* crash on the interval nor in a run that completes.
C9_BadIntervalRejected ==
    args.Interval <= 0 =>
        /\ io["probe"] = 0 /\ io["extract"] = 0 /\ io["create"] = 0
        /\ exit # "ok"
        /\ ~(exit = "panic" /\ fault = "divide by zero")

\* C10: with a format outside {bmp, png, jpg, jpeg} the run does no I/O of
\* any kind and creates no directory and no file.
C10_BadFormatBeforeIo ==
    args.Format \notin Formats =>
        io = NoIo /\ made = {} /\ DOMAIN files = {}

\* largest width and height of the frames whose comparison is enumerated
MaxDim == 2

\* a w x h frame with every byte b
Flat(w, h, b) == Frame(w, h, [i \in 1..(4 * w * h) |-> b])

\* the next step is a comparison of two frames of different bounds
MismatchedPair ==
    \/ /\ pc = "gs_loop" /\ supI < numFrames
       /\ DiskFile(supI - 1) \in DOMAIN files /\ DiskFile(supI) \in DOMAIN files
       /\ LET a == files[DiskFile(supI - 1)]
              b == files[DiskFile(supI)]
          IN  a.w # b.w \/ a.h # b.h
    \/ /\ pc = "mem_compare" /\ slotK < frameCount
       /\ LET a == frames[cursor + 1]
              b == frames[slotK + 1]
          IN  a.w # b.w \/ a.h # b.h

\* C11: comparing two frames whose width or height differ gives the
\* error and no distance, whatever the two sizes; in either pipeline a
\* comparison of such a pair ends the process with that error on the spot,
\* with no file removed or saved and no cursor moved, and nothing runs after.
C11_MismatchAborts ==
    [][/\ pc = "main_start" =>
            \A w1, h1, w2, h2 \in 0..MaxDim :
                (w1 # w2 \/ h1 # h2) =>
                    \A r \in fastCompare(Flat(w1, h1, 0), Flat(w2, h2, 255)) :
                        r.err /\ r.dist = 0
       /\ exit = "running"
       /\ MismatchedPair =>
            /\ exit' = "panic" /\ fault' = "image bounds not equal"
            /\ files' = files /\ saved' = saved /\ numSaved' = numSaved
            /\ cursor' = cursor /\ supI' = supI /\ slotK' = slotK
            /\ io'["remove"] = io["remove"] /\ io'["create"] = io["create"]]_vars

\* a folder's video held frames of two sizes and the run died comparing them
C11_Witness ==
    /\ exit = "panic" /\ fault = "image bounds not equal"
    /\ args.Batch # 0 /\ MismatchedPair
    /\ io["remove"] = 0

\* C12: for all bytes x, y the term sqDiffUInt8(x, y) is (x-y)^2, also
\* when x < y wraps the unsigned subtraction; for frames A, B of equal
\* bounds with at least one pixel, the accumulated error and the distance
\* of (A, B) equal those of (B, A), and the distance of (A, A) is 0.
C12_MetricSymmetric ==
    /\ (pc = "cmp_done" /\ sq # <<>>) =>
          sq = U64FromInt((px - py) * (px - py))
    /\ (pc = "cmp_done" /\ distOfAB # {}) =>
          /\ AccumError(imgA.pix, imgB.pix, 1) = AccumError(imgB.pix, imgA.pix, 1)
          /\ AccumError(imgA.pix, imgA.pix, 1) = U64FromInt(0)
          /\ distOfAB = distOfBA
          /\ Cardinality(distOfAB) = 1
          /\ \A r \in distOfAB : ~r.err /\ r.dist >= 0
          /\ distOfAA = {[err |-> FALSE, dist |-> 0]}

\* two different frames, a channel where A is below B (the subtraction
\* wraps) and one where it is above, at a distance above 0
C12_Witness ==
    /\ pc = "cmp_done"
    /\ imgA # imgB
    /\ \E i \in DOMAIN imgA.pix : imgA.pix[i] < imgB.pix[i]
    /\ \E i \in DOMAIN imgA.pix : imgA.pix[i] > imgB.pix[i]
    /\ \E r \in distOfAB : r.dist > 0

\* the file a save with index k targets
SlidePath(k) == FramePath(outputDir, JobStem, k, job.Format)

\* C13: streaming mode: the k-th save of a video, whatever its batch,
\* carries index k, so the first is 1 and each later one the previous plus
\* 1; numSaved is the number of saves; the saves target pairwise different
\* files and the files on disk are exactly those of indices 1..K.
C13_StreamIndicesSequential ==
    (MemJob /\ pc \in {"mem_batch", "mem_extract", "mem_compare", "main_ret"}) =>
        /\ \A k \in 1..Len(saved) : saved[k].out = k
        /\ numSaved = Len(saved)
        /\ \A k, l \in 1..Len(saved) : k # l => SlidePath(k) # SlidePath(l)
        /\ DOMAIN files = {SlidePath(k) : k \in 1..Len(saved)}
        /\ io["create"] = Len(saved)

\* the run is over, two batches each persisted two slides, indices 1..4
C13_Witness ==
    /\ MemJob /\ pc = "main_ret"
    /\ Len(saved) = 4
    /\ saved[1].batch = saved[2].batch
    /\ saved[2].batch # saved[3].batch
    /\ saved[3].batch = saved[4].batch
    /\ saved[4].out = 4

\* the faults of a pipeline, as opposed to those of main
PipelineFaults ==
    {"probe", "decode", "image bounds not equal", "open", "divide by zero",
     "negative WaitGroup counter", "makeslice: len out of range"}

\* a job's settings other than its path
Settings(a) == [a EXCEPT !.Path = <<>>]

\* a batch run over a folder of two entries of different names, out/ empty
\* or absent at the start, is over and no pipeline hit a fatal error
TwoEntryRunOver ==
    /\ args.Batch # 0 /\ listing.ok
    /\ Len(listing.names) = 2 /\ listing.names[1] # listing.names[2]
    /\ (dirs \ made) \subseteq {OutRoot}
    /\ exit # "running"
    /\ fault \notin PipelineFaults

\* C14: batch mode, a folder of two entries with different file names:
\* the run creates exactly the two directories out/<stem of entry k>, and
\* calls the pipeline exactly twice, in the listing's order, call k with
\* the path <folder>/<name of entry k>, the directory of entry k and
\* otherwise the settings of the command line; while a call runs, the job
\* is that call's.
C14_BatchTwoEntries ==
    /\ TwoEntryRunOver =>
          /\ made \ {OutRoot} =
                {OutputDirOf(Stem(listing.names[k])) : k \in 1..2}
          /\ Cardinality(made \ {OutRoot}) = 2
          /\ Len(calls) = 2
          /\ \A k \in 1..2 :
                /\ calls[k].job.Path = FolderV \o <<"/">> \o listing.names[k]
                /\ calls[k].outputDir = OutputDirOf(Stem(listing.names[k]))
                /\ Settings(calls[k].job) = Settings(args)
          /\ io["probe"] = 2
    /\ (args.Batch # 0 /\ calls # <<>>) =>
          /\ job = calls[Len(calls)].job
          /\ outputDir = calls[Len(calls)].outputDir
          /\ Len(calls) = IF pc = "main_entry" THEN entryI - 1 ELSE entryI

\* the same for entries whose stems differ, and a completed run of two calls
TwoEntriesDistinctStems ==
    (TwoEntryRunOver /\ Stem(listing.names[1]) = Stem(listing.names[2]))
        \/ C14_BatchTwoEntries

\* extractVideoFrames has returned
ExtractionReturned == pc \in {"gs_loop", "main_ret"}

\* C15: disk mode, at least one worker, any number n >= 0 of tasks, fair
\* scheduling and every decode call returning: the extraction phase
\* returns; and whenever it has returned the queue is closed, each of the
\* n tasks was dispatched and received once and its decode call is over,
\* and every worker has exited.
C15_ExtractionTerminates ==
    /\ [](ExtractionReturned =>
            /\ chanClosed
            /\ sendI = numFrames /\ Len(sent) = numFrames
            /\ DOMAIN taken = 0..(numFrames - 1)
            /\ \A i \in DOMAIN taken : taken[i] = 1 /\ Len(outcome[i]) = 1
            /\ DOMAIN worker = 1..job.Workers
            /\ \A k \in DOMAIN worker : worker[k].st = "exit"
            /\ wg = 0)
    /\ (pc = "evf_probe" /\ job.Workers >= 1) ~> ExtractionReturned

\* two workers have extracted a video of several frames and the phase has
\* just returned
C15_Witness ==
    /\ pc = "gs_loop" /\ supI = 1 /\ io["read"] = 0
    /\ job.Workers = 2 /\ numFrames >= 3
    /\ ExtractionOver /\ wg = 0

\* the workers inside runCommand, and the tasks handed over whose decode
\* call has not returned
RunningWorkers == {k \in DOMAIN worker : worker[k].st = "run"}
InFlight == {i \in DOMAIN taken : taken[i] >= 1 /\ outcome[i] = <<>>}

\* C16: disk mode: at any time the decode calls in progress are at most
\* args.Workers; each is the one task of one worker, and every task the
\* producer has handed over is either finished or in the hands of a
\* running worker, none waiting in a queue.
C16_BoundedParallelism ==
    (DiskJob /\ pc \in {"evf_send", "evf_wait", "gs_loop", "main_ret"}) =>
        /\ Cardinality(RunningWorkers) <= job.Workers
        /\ Cardinality(InFlight) <= job.Workers
        /\ InFlight = {worker[k].idx : k \in RunningWorkers}
        /\ Cardinality(InFlight) = Cardinality(RunningWorkers)
        /\ Len(sent) = sendI
        /\ sendI = Cardinality(InFlight)
                     + Cardinality({i \in DOMAIN outcome : outcome[i] # <<>>})

\* both of two workers are inside a decode call and the producer, with
\* tasks left, has to wait
C16_Witness ==
    /\ DiskJob /\ pc = "evf_send" /\ job.Workers = 2
    /\ Cardinality(RunningWorkers) = 2
    /\ sendI < numFrames
    /\ ~ENABLED (\E k \in DOMAIN worker : EVFSend(k))

\* every comparison so far took both operands from slots filled in the
\* batch it belongs to
ComparedWithinBatch ==
    \A k \in 1..Len(compared) :
        /\ compared[k].a.batch = compared[k].batch
        /\ compared[k].b.batch = compared[k].batch

\* C17: streaming mode: every frame compared or persisted while batch N is
\* processed was decoded during batch N: no comparison and no save takes a
\* slot holding a frame of an earlier batch or a slot never filled.
C17_BatchIsolation ==
    MemJob =>
        /\ ComparedWithinBatch
        /\ \A k \in 1..Len(saved) : saved[k].from = saved[k].batch

\* the output directory of entry j of the listing
EntryDir(j) == OutputDirOf(Stem(listing.names[j]))

\* the next step creates the directory of the current entry and fails
MkdirFails ==
    /\ pc = "main_entry" /\ entryI <= Len(listing.names)
    /\ ~MkdirOk(EntryDir(entryI))

\* the next step probes a file that ffprobe cannot read
ProbeWillFail == pc \in {"evf_probe", "mem_probe"} /\ ProbeFails(job.Path)

\* C18: batch mode: a failed creation of entry k's directory, a failed
\* duration probe, a streaming decode call that yields no frame and a
\* comparison of frames of different bounds each end the process in the
\* very step; a process that has ended takes no further step, so entry k
\* sees no later pipeline step, and nothing is created, probed, extracted
\* or called for an entry after k.
C18_FatalAbortsBatch ==
    [][args.Batch # 0 =>
        /\ exit = "running"
        /\ MkdirFails =>
              (exit' = "panic" /\ calls' = calls /\ dirs' = dirs /\ files' = files)
        /\ ProbeWillFail =>
              (exit' = "panic" /\ files' = files /\ io'["extract"] = io["extract"])
        /\ MismatchedPair => (exit' = "panic" /\ files' = files)
        /\ (MemJob /\ io'["extract"] > io["extract"] /\ decoded' = decoded) =>
              (exit' = "panic" /\ files' = files)
        /\ exit' = "panic" =>
              /\ pc' = pc /\ entryI' = entryI /\ job' = job
              /\ Len(calls') <= entryI'
              /\ \A k \in 1..Len(calls') :
                    calls'[k].job.Path = WithSlash(args.Path) \o listing.names[k]
              /\ made' \subseteq {OutRoot} \cup {EntryDir(j) : j \in 1..entryI'}
              /\ io'["probe"] <= entryI'
              /\ io'["mkdir"] <= 1 + entryI'
              /\ \A f \in DOMAIN files' :
                    \E j \in 1..entryI' :
                        SubSeq(f, 1, Len(EntryDir(j))) = EntryDir(j)]_vars

\* the first of two entries died on a decode failure: its directory is the
\* only one made, the second entry has no directory, no call and no probe
C18_Witness ==
    /\ args.Batch # 0 /\ exit = "panic" /\ fault = "decode"
    /\ Len(listing.names) = 2 /\ entryI = 1
    /\ Len(calls) = 1 /\ io["probe"] = 1
    /\ EntryDir(1) \in made
    /\ EntryDir(2) \notin dirs

\* C19: disk mode, all n files extracted: while the suppression pass runs,
\* every file from index i-1 on, i the iteration to come, is on disk, so
\* both files an iteration reads exist and the pass never fails to open
\* one; what it has removed lies below i-1, one file per removal at most,
\* and file n-1 is there to the end.
C19_NeverReadsDeleted ==
    (DiskJob /\ AllExtracted /\ pc \in {"gs_loop", "main_ret"}) =>
        /\ \A j \in (supI - 1)..(numFrames - 1) :
              j >= 0 => DiskFile(j) \in DOMAIN files
        /\ supI < numFrames =>
              /\ DiskFile(supI - 1) \in DOMAIN files
              /\ DiskFile(supI) \in DOMAIN files
        /\ fault # "open"
        /\ numFrames >= 1 => DiskFile(numFrames - 1) \in DOMAIN files
        /\ numFrames - Cardinality(Survivors) = io["remove"]
        /\ io["remove"] <= supI - 1
        /\ io["read"] >= 2 * io["remove"]

\* the pass over four files is over and has removed two of them
C19_Witness ==
    /\ DiskJob /\ AllExtracted /\ pc = "gs_loop"
    /\ numFrames = 4 /\ supI = 4
    /\ io["remove"] = 2 /\ io["read"] = 6
    /\ DiskFile(3) \in DOMAIN files

\* the producer stands at a hand-off that no worker will ever take
ProducerStuck ==
    /\ pc = "evf_send" /\ sendI = 0 /\ sent = <<>>
    /\ ~chanClosed
    /\ io["extract"] = 0 /\ io["read"] = 0 /\ io["remove"] = 0
    /\ exit = "running"
    /\ ~ENABLED NextDisk

\* C20: disk mode, workers = 0 is accepted as it is: with at least one
\* sampled timestamp the producer's first hand-off is never received, the
\* queue is never closed, the phase never returns and the suppression
\* never starts; with no sampled timestamp the phase returns, with nothing
\* dispatched.
C20_ZeroWorkersDeadlock ==
    /\ []((DiskJob /\ job.Workers = 0 /\ pc # "evf_probe" /\ numFrames >= 1)
            => ProducerStuck)
    /\ []((DiskJob /\ job.Workers = 0 /\ pc # "evf_probe" /\ numFrames = 0)
            => (sent = <<>> /\ worker = <<>> /\ io["extract"] = 0))
    /\ (pc = "evf_probe" /\ job.Workers = 0
          /\ GoDiv(Probed(job.Path).dur, job.Interval) = 0)
         ~> (ExtractionReturned /\ numFrames = 0 /\ chanClosed)

\* no worker, three tasks: the run stands still at the first hand-off
C20_Witness ==
    /\ DiskJob /\ job.Workers = 0 /\ numFrames = 3
    /\ worker = <<>> /\ wg = 0
    /\ ProducerStuck

====
